---- MODULE Spec2Model ----
(***************************************************************************)
(* Model of the two chat front-ends of the repository:                     *)
(*   - the streaming wellness chat screen (ibm-proj/frontend/src/App.js),  *)
(*   - the static chat shell (src/App.js).                                 *)
(*                                                                         *)
(* Representation of JavaScript values.  A JS string is a tuple of         *)
(* symbols (<<"a","b">> is "ab", <<>> is ""); null, undefined, true and    *)
(* false are the one-symbol tuples Null, Undefined, True, False, whose     *)
(* symbol is the text JS prints for them, so that `s += undefined` is      *)
(* s \o Undefined.  Response text is a tuple of lexical tokens, each token *)
(* itself a tuple of strings; a chunk boundary falls between two tokens.   *)
(***************************************************************************)
EXTENDS Integers, Sequences, FiniteSets, TLC

VARIABLES
    messages,          \* useState([])    : the transcript
    inputMessage,      \* useState("")    : text of the input box
    isLoading,         \* useState(false) : the loading flag
    topics,            \* useState([])    : topic ids fetched at mount
    streamingMessage,  \* useState(null)  : the draft shown on screen
    toast,             \* the notification last raised through sonner
    requests,          \* bodies of the POSTs issued to /chat/stream
    topicsPc,          \* position of fetchWellnessTopics
    sends,             \* one closure record per sendMessage past its guard
    lastOp,            \* the handler or continuation that ran last
    shellMessages,     \* static shell: messages of useMessages([])
    timers             \* static shell: the setTimeout callbacks not yet run

vars == <<messages, inputMessage, isLoading, topics, streamingMessage,
          toast, requests, topicsPc, sends, lastOp, shellMessages, timers>>

\* the state of the static shell, a page of its own
shellVars == <<shellMessages, timers>>

----------------------------------------------------------------------------
(* Bounds *)

MaxSends == 2      \* sendMessage calls that pass the input guard
MaxEvents == 3     \* event lines of one response payload (decode runs)

----------------------------------------------------------------------------
(* JavaScript values *)

Null == <<"null">>
Undefined == <<"undefined">>
True == <<"true">>
False == <<"false">>
NullMsg == [role |-> "null"]      \* streamingMessage === null

Str(s) == <<s>>

Whitespace == {" ", "\n", "\t"}

RECURSIVE TrimStart(_)
TrimStart(s) ==
    IF s # <<>> /\ Head(s) \in Whitespace THEN TrimStart(Tail(s)) ELSE s

RECURSIVE TrimEnd(_)
TrimEnd(s) ==
    IF s # <<>> /\ s[Len(s)] \in Whitespace
    THEN TrimEnd(SubSeq(s, 1, Len(s) - 1)) ELSE s

\* a trim that strips nothing
Trim_Identity(s) == s

\* String.prototype.trim
Trim(s) == TrimEnd(TrimStart(s))

----------------------------------------------------------------------------
(* Response text: tokens, lines, JSON *)

NL == <<"\n">>
LBrace == <<"{">>
RBrace == <<"}">>
DataPrefix == << <<"data:">>, <<" ">> >>          \* the literal 'data: '

Keys == {"type", "content", "sources", "web_sources", "web_searched"}

\* chunk.split('\n'): the pieces between newlines, the last one included
RECURSIVE SplitFrom(_, _, _)
SplitFrom(text, i, cur) ==
    IF i > Len(text) THEN <<cur>>
    ELSE IF text[i] = NL THEN <<cur>> \o SplitFrom(text, i + 1, <<>>)
    ELSE SplitFrom(text, i + 1, Append(cur, text[i]))

Split(text) == SplitFrom(text, 1, <<>>)

\* line.startsWith('data: ')
StartsWith(line, prefix) ==
    /\ Len(line) >= Len(prefix)
    /\ SubSeq(line, 1, Len(prefix)) = prefix

\* line.slice(6): the line without the six characters of the prefix
Slice(line) == SubSeq(line, Len(DataPrefix) + 1, Len(line))

IsMember(tok) == Len(tok) >= 1 /\ tok[1] \in Keys

\* a parser that also takes an object whose closing brace is missing
JSONParses_Lenient(text) ==
    /\ Len(text) >= 2
    /\ text[1] = LBrace
    /\ text[Len(text)] = RBrace \/ IsMember(text[Len(text)])
    /\ \A i \in 2..(Len(text) - 1) : IsMember(text[i])

\* JSON.parse succeeds on the text of an object: '{' members '}'.  Every
\* other text (a fragment of an object, an empty payload) throws.
JSONParses(text) ==
    /\ Len(text) >= 2
    /\ text[1] = LBrace
    /\ text[Len(text)] = RBrace
    /\ \A i \in 2..(Len(text) - 1) : IsMember(text[i])

\* data[key] of the parsed object: the value of the last member with that
\* key, undefined when there is none
RECURSIVE Field(_, _, _)
Field(text, key, i) ==
    IF i < 2 THEN Undefined
    ELSE IF text[i][1] = key THEN Tail(text[i])
    ELSE Field(text, key, i - 1)

JSONParse(text) ==
    [k \in Keys |-> Field(text, k, Len(text) - 1)]

----------------------------------------------------------------------------
(* The draft and the two line handlers of sendMessage *)

\* let currentStreamingMsg = {...}
EmptyDraft ==
    [role |-> "assistant", thinking |-> <<>>, content |-> <<>>,
     thinkingComplete |-> FALSE, sources |-> Null, webSources |-> Null,
     webSearched |-> False]

\* x || null for a string x
OrNull(s) == IF s = <<>> THEN Null ELSE s

\* the object literal appended by a `done` event
FinalMessage(msg) ==
    [role |-> "assistant", content |-> msg.content,
     thinking |-> OrNull(msg.thinking), sources |-> msg.sources,
     webSources |-> msg.webSources, webSearched |-> msg.webSearched]

\* st is the part of the state a run of the line loop works on:
\*   msg     currentStreamingMsg of the closure
\*   shown   streamingMessage
\*   list    messages
\*   applied the events the loop has dispatched (history)
ApplyThinking(data, st) ==
    LET m == [st.msg EXCEPT !.thinking = @ \o data.content]
    IN  [st EXCEPT !.msg = m, !.shown = m]

ApplyThinkingEnd(data, st) ==
    LET m == [st.msg EXCEPT !.thinkingComplete = TRUE]
    IN  [st EXCEPT !.msg = m, !.shown = m]

\* a response handler that puts the new text in front of the old
ApplyResponse_Prepend(data, st) ==
    LET m == [st.msg EXCEPT !.content = data.content \o @]
    IN  [st EXCEPT !.msg = m, !.shown = m]

ApplyResponse(data, st) ==
    LET m == [st.msg EXCEPT !.content = @ \o data.content]
    IN  [st EXCEPT !.msg = m, !.shown = m]

\* a metadata handler that keeps the old value of a field the event lacks
ApplyMetadata_Merge(data, st) ==
    LET keep(new, old) == IF new = Undefined THEN old ELSE new
        m == [st.msg EXCEPT !.sources = keep(data.sources, @),
                            !.webSources = keep(data.web_sources, @),
                            !.webSearched = keep(data.web_searched, @)]
    IN  [st EXCEPT !.msg = m, !.shown = m]

ApplyMetadata(data, st) ==
    LET m == [st.msg EXCEPT !.sources = data.sources,
                            !.webSources = data.web_sources,
                            !.webSearched = data.web_searched]
    IN  [st EXCEPT !.msg = m, !.shown = m]

\* a done handler that overwrites the newest entry of the transcript
ApplyDone_Replace(data, st) ==
    [st EXCEPT !.list = SubSeq(@, 1, Len(@) - 1) \o <<FinalMessage(st.msg)>>,
               !.shown = NullMsg]

ApplyDone(data, st) ==
    [st EXCEPT !.list = Append(@, FinalMessage(st.msg)), !.shown = NullMsg]

\* the if/else chain of the streaming loop
StreamEvent(data, st) ==
    IF data.type = Str("thinking_start") THEN st
    ELSE IF data.type = Str("thinking") THEN ApplyThinking(data, st)
    ELSE IF data.type = Str("thinking_end") THEN ApplyThinkingEnd(data, st)
    ELSE IF data.type = Str("response_start") THEN st
    ELSE IF data.type = Str("response") THEN ApplyResponse(data, st)
    ELSE IF data.type = Str("response_end") THEN st
    ELSE IF data.type = Str("metadata") THEN ApplyMetadata(data, st)
    ELSE IF data.type = Str("done") THEN ApplyDone(data, st)
    ELSE st

\* the if/else chain of the fallback loop
FallbackEvent(data, st) ==
    IF data.type = Str("thinking") THEN ApplyThinking(data, st)
    ELSE IF data.type = Str("thinking_end") THEN ApplyThinkingEnd(data, st)
    ELSE IF data.type = Str("response") THEN ApplyResponse(data, st)
    ELSE IF data.type = Str("metadata") THEN ApplyMetadata(data, st)
    ELSE IF data.type = Str("done") THEN ApplyDone(data, st)
    ELSE st

Logged(data, st) == [st EXCEPT !.applied = Append(@, data)]

\* a line body whose inner catch drops the draft as the outer catch does
StreamLine_ClearOnError(line, st) ==
    IF StartsWith(line, DataPrefix)
    THEN IF JSONParses(Slice(line))
         THEN StreamEvent(JSONParse(Slice(line)),
                          Logged(JSONParse(Slice(line)), st))
         ELSE [st EXCEPT !.shown = NullMsg]
    ELSE [st EXCEPT !.shown = NullMsg]

\* body of `for (const line of lines)` in the streaming loop; a JSON.parse
\* that throws is caught and the line skipped.  The content of an event is
\* a string or absent, so data.content?.substring(0, 20) does not throw.
StreamLine(line, st) ==
    IF StartsWith(line, DataPrefix)
    THEN IF JSONParses(Slice(line))
         THEN StreamEvent(JSONParse(Slice(line)),
                          Logged(JSONParse(Slice(line)), st))
         ELSE st
    ELSE st

FallbackLine(line, st) ==
    IF StartsWith(line, DataPrefix)
    THEN IF JSONParses(Slice(line))
         THEN FallbackEvent(JSONParse(Slice(line)),
                            Logged(JSONParse(Slice(line)), st))
         ELSE st
    ELSE st

RECURSIVE StreamLines(_, _)
StreamLines(lines, st) ==
    IF lines = <<>> THEN st
    ELSE StreamLines(Tail(lines), StreamLine(Head(lines), st))

RECURSIVE FallbackLines(_, _)
FallbackLines(lines, st) ==
    IF lines = <<>> THEN st
    ELSE FallbackLines(Tail(lines), FallbackLine(Head(lines), st))

\* const chunk = decoder.decode(value); const lines = chunk.split('\n'); for ...
StreamChunk(chunk, st) == StreamLines(Split(chunk), st)

\* const full = await response.text(); const lines = full.split('\n'); for ...
FallbackText(full, st) == FallbackLines(Split(full), st)

----------------------------------------------------------------------------
(* The backend: events and their wire text (spec.md section 6) *)

Ev(type, content, sources, web_sources, web_searched) ==
    [type |-> Str(type), content |-> content, sources |-> sources,
     web_sources |-> web_sources, web_searched |-> web_searched]

Thinking(c) == Ev("thinking", c, Undefined, Undefined, Undefined)
Response(c) == Ev("response", c, Undefined, Undefined, Undefined)
ThinkingEnd == Ev("thinking_end", Undefined, Undefined, Undefined, Undefined)
Done == Ev("done", Undefined, Undefined, Undefined, Undefined)
Metadata(s, ws, wsd) == Ev("metadata", Undefined, s, ws, wsd)

KeyOrder == <<"type", "content", "sources", "web_sources", "web_searched">>

RECURSIVE Members(_, _)
Members(ev, i) ==
    IF i > Len(KeyOrder) THEN <<>>
    ELSE (IF ev[KeyOrder[i]] = Undefined THEN <<>>
          ELSE << <<KeyOrder[i]>> \o ev[KeyOrder[i]] >>)
         \o Members(ev, i + 1)

\* one line `data: <json>\n`
EncodeLine(ev) == DataPrefix \o <<LBrace>> \o Members(ev, 1) \o <<RBrace, NL>>

RECURSIVE Encode(_)
Encode(evs) ==
    IF evs = <<>> THEN <<>> ELSE EncodeLine(Head(evs)) \o Encode(Tail(evs))

RECURSIVE SeqsUpTo(_, _)
SeqsUpTo(S, n) ==
    IF n = 0 THEN {<<>>}
    ELSE LET shorter == SeqsUpTo(S, n - 1)
         IN  shorter \cup {Append(q, e) : q \in {r \in shorter : Len(r) = n - 1}, e \in S}

\* events the backend sends in the decode runs
DecodeEvents ==
    {Thinking(<<>>), Thinking(<<"a">>), Response(<<"b">>), Response(<<"c">>),
     ThinkingEnd, Done}

DecodeStreams == SeqsUpTo(DecodeEvents, MaxEvents)

\* events the backend sends in the metadata runs
MetaEvents ==
    {Thinking(<<"a">>), Response(<<"b">>), Done,
     Metadata(<<"WHO">>, <<"w1">>, True),
     Metadata(<<"CDC">>, Undefined, Undefined)}

MetaStreams == SeqsUpTo(MetaEvents, MaxEvents)

\* a line of the body that is not an event line, by its text
Raw(text) == [raw |-> text]

IsEvent(item) == "type" \in DOMAIN item

\* `: ping`, a comment line
NotData == Raw(<< <<": ping">> >>)
\* `data:{"type":"done"}`, no blank after the colon
NoBlank == Raw(<< <<"data:">>, LBrace, <<"type", "done">>, RBrace >>)
\* `data: {"type":"response","content":"b"`, an object cut short
CutShort == Raw(DataPrefix \o <<LBrace, <<"type", "response">>, <<"content", "b">> >>)

EncodeItem(item) ==
    IF IsEvent(item) THEN EncodeLine(item) ELSE item.raw \o <<NL>>

RECURSIVE EncodeItems(_)
EncodeItems(items) ==
    IF items = <<>> THEN <<>>
    ELSE EncodeItem(Head(items)) \o EncodeItems(Tail(items))

\* lines the backend sends in the line runs
LineItems == {Response(<<"b">>), Done, NotData, NoBlank, CutShort}

LineStreams == SeqsUpTo(LineItems, MaxEvents)

\* events the backend sends in the split runs
SplitEvents == {Thinking(<<"a">>), Response(<<"b">>), Done}

SplitStreams == SeqsUpTo(SplitEvents, MaxEvents)

\* events the backend sends in the clear runs
ClearEvents ==
    {Thinking(<<"a">>), ThinkingEnd, Response(<<"b">>),
     Metadata(<<"WHO">>, <<"w1">>, True), Done}

ClearStreams == SeqsUpTo(ClearEvents, MaxEvents)

\* event streams the backend sends in the screen runs
ScreenStreams ==
    {<<Response(<<"b">>), Done>>, <<Response(<<"b">>)>>}

----------------------------------------------------------------------------
(* The screen: WellnessChat *)

\* texts typed into the input box
Inputs == {<<>>, <<" ">>, <<" ", "q">>}

\* topic lists GET /wellness-topics returns
TopicLists == {<<"nutrition", "yoga">>}

\* handleTopicClick: const topicQuestions = {...}
topicQuestions ==
    [nutrition |-> <<"What are some general healthy eating guidelines?">>,
     exercise |-> <<"How much exercise should I get weekly?">>,
     sleep |-> <<"What are good sleep hygiene practices?">>,
     stress |-> <<"What are some healthy ways to manage stress?">>,
     hydration |-> <<"How much water should I drink daily?">>,
     checkup |-> <<"How often should I get routine health checkups?">>]

\* lastOp: the handler or continuation, the send it belongs to (0 for none)
\* and, for a sendMessage call, its messageText
Op(name, id) == [op |-> name, id |-> id, text |-> <<>>]
Call(name, id, messageText) == [op |-> name, id |-> id, text |-> messageText]

Init ==
    /\ messages = <<>>
    /\ inputMessage = <<>>
    /\ isLoading = FALSE
    /\ topics = <<>>
    /\ streamingMessage = NullMsg
    /\ toast = "none"
    /\ requests = <<>>
    /\ topicsPc = "fetch"
    /\ sends = <<>>
    /\ lastOp = Op("mount", 0)
    /\ shellMessages = <<>>
    /\ timers = <<>>

\* fetchWellnessTopics, after `await fetch` and `await response.json()`
TopicsLoaded(list) ==
    /\ topicsPc = "fetch"
    /\ topics' = list
    /\ topicsPc' = "done"
    /\ UNCHANGED shellVars
    /\ lastOp' = Op("TopicsLoaded", 0)
    /\ UNCHANGED <<messages, inputMessage, isLoading, streamingMessage,
                   toast, requests, sends>>

\* fetchWellnessTopics, catch branch
TopicsFailed ==
    /\ topicsPc = "fetch"
    /\ topicsPc' = "done"
    /\ UNCHANGED shellVars
    /\ lastOp' = Op("TopicsFailed", 0)
    /\ UNCHANGED <<messages, inputMessage, isLoading, topics,
                   streamingMessage, toast, requests, sends>>

\* the closure of a sendMessage call that passed its guard, with the response
\* it reads: pc is the await it is suspended at, msg is currentStreamingMsg,
\* sent the events the backend puts into the body, payload the text of the
\* body, pos the tokens already read, applied the events dispatched so far.
\* The response is gone once the call has exited.
NewSend ==
    [pc |-> "fetch", msg |-> EmptyDraft, sent |-> <<>>, payload |-> <<>>,
     pos |-> 0, applied |-> <<>>]

\* a sendMessage that stores the trimmed text
sendMessage_Trimmed(messageText, name) ==
    \/ /\ Trim(messageText) = <<>>
       /\ UNCHANGED shellVars
       /\ lastOp' = Call(name, 0, messageText)
       /\ UNCHANGED <<messages, inputMessage, isLoading, topics,
                      streamingMessage, toast, requests, topicsPc, sends>>
    \/ /\ Trim(messageText) # <<>>
       /\ Len(sends) < MaxSends
       /\ messages' = Append(messages, [role |-> "user", content |-> Trim(messageText)])
       /\ inputMessage' = <<>>
       /\ isLoading' = TRUE
       /\ streamingMessage' = EmptyDraft
       /\ requests' = Append(requests, messageText)
       /\ sends' = Append(sends, NewSend)
       /\ UNCHANGED shellVars
       /\ lastOp' = Call(name, Len(sends) + 1, messageText)
       /\ UNCHANGED <<topics, toast, topicsPc>>

\* sendMessage(messageText), up to its first await
sendMessage(messageText, name) ==
    \/ /\ Trim(messageText) = <<>>
       /\ UNCHANGED shellVars
       /\ lastOp' = Call(name, 0, messageText)
       /\ UNCHANGED <<messages, inputMessage, isLoading, topics,
                      streamingMessage, toast, requests, topicsPc, sends>>
    \/ /\ Trim(messageText) # <<>>
       /\ Len(sends) < MaxSends
       /\ messages' = Append(messages, [role |-> "user", content |-> messageText])
       /\ inputMessage' = <<>>
       /\ isLoading' = TRUE
       /\ streamingMessage' = EmptyDraft
       /\ requests' = Append(requests, messageText)
       /\ sends' = Append(sends, NewSend)
       /\ UNCHANGED shellVars
       /\ lastOp' = Call(name, Len(sends) + 1, messageText)
       /\ UNCHANGED <<topics, toast, topicsPc>>

\* <Input onChange>, enabled unless disabled={isLoading}
ChangeInput(v) ==
    /\ ~isLoading
    /\ v # inputMessage
    /\ inputMessage' = v
    /\ UNCHANGED shellVars
    /\ lastOp' = Op("ChangeInput", 0)
    /\ UNCHANGED <<messages, isLoading, topics, streamingMessage, toast,
                   requests, topicsPc, sends>>

\* <Button onClick={() => sendMessage()}>, disabled={isLoading || !inputMessage.trim()}
ClickSend ==
    /\ ~(isLoading \/ Trim(inputMessage) = <<>>)
    /\ sendMessage(inputMessage, "ClickSend")

\* handleKeyPress with Enter, on the input (disabled={isLoading})
handleKeyPress ==
    /\ ~isLoading
    /\ sendMessage(inputMessage, "handleKeyPress")

\* handleTopicClick(topic); the grid is rendered when
\* messages.length === 0 && !streamingMessage.  An id outside topicQuestions
\* gives undefined, and the default parameter then takes inputMessage.
handleTopicClick(k) ==
    /\ messages = <<>>
    /\ streamingMessage = NullMsg
    /\ k \in 1..Len(topics)
    /\ sendMessage(IF topics[k] \in DOMAIN topicQuestions
                   THEN topicQuestions[topics[k]] ELSE inputMessage,
                   "handleTopicClick")

\* a clearChat that ends the sends in flight
clearChat_Cancel ==
    /\ messages # <<>>
    /\ messages' = <<>>
    /\ streamingMessage' = NullMsg
    /\ toast' = "success"
    /\ sends' = [i \in 1..Len(sends) |->
                    [sends[i] EXCEPT !.pc = "exited", !.sent = <<>>,
                                     !.payload = <<>>, !.pos = 0]]
    /\ UNCHANGED shellVars
    /\ lastOp' = Op("clearChat", 0)
    /\ UNCHANGED <<inputMessage, isLoading, topics, requests, topicsPc>>

\* a clearChat that leaves the draft on screen
clearChat_KeepDraft ==
    /\ messages # <<>>
    /\ messages' = <<>>
    /\ toast' = "success"
    /\ UNCHANGED shellVars
    /\ lastOp' = Op("clearChat", 0)
    /\ UNCHANGED <<inputMessage, isLoading, topics, streamingMessage,
                   requests, topicsPc, sends>>

\* clearChat; the button is rendered when messages.length > 0
clearChat ==
    /\ messages # <<>>
    /\ messages' = <<>>
    /\ streamingMessage' = NullMsg
    /\ toast' = "success"
    /\ UNCHANGED shellVars
    /\ lastOp' = Op("clearChat", 0)
    /\ UNCHANGED <<inputMessage, isLoading, topics, requests, topicsPc, sends>>

Exited(send) ==
    [send EXCEPT !.pc = "exited", !.sent = <<>>, !.payload = <<>>, !.pos = 0]

\* a catch branch that saves what the draft holds as a Message
Thrown_KeepPartial(i) ==
    /\ toast' = "error"
    /\ messages' = Append(messages, FinalMessage(sends[i].msg))
    /\ streamingMessage' = NullMsg
    /\ isLoading' = FALSE
    /\ sends' = [sends EXCEPT ![i] = Exited(@)]
    /\ UNCHANGED shellVars
    /\ lastOp' = Op("catch", i)
    /\ UNCHANGED <<inputMessage, topics, requests, topicsPc>>

\* catch (error) { toast.error; setStreamingMessage(null) } finally { setIsLoading(false) }
Thrown(i) ==
    /\ toast' = "error"
    /\ streamingMessage' = NullMsg
    /\ isLoading' = FALSE
    /\ sends' = [sends EXCEPT ![i] = Exited(@)]
    /\ UNCHANGED shellVars
    /\ lastOp' = Op("catch", i)
    /\ UNCHANGED <<messages, inputMessage, topics, requests, topicsPc>>

\* await fetch(...) rejects
FetchRejected(i) ==
    /\ sends[i].pc = "fetch"
    /\ Thrown(i)

\* if (!response.ok) throw new Error(...)
FetchNotOk(i) ==
    /\ sends[i].pc = "fetch"
    /\ Thrown(i)

\* response.ok; reader = response.body.getReader() succeeds (hasReader) or
\* throws, and the fallback then awaits response.text()
FetchOk(i, evs, hasReader) ==
    /\ sends[i].pc = "fetch"
    /\ sends' = [sends EXCEPT ![i].pc = IF hasReader THEN "read" ELSE "text",
                              ![i].sent = evs,
                              ![i].payload = Encode(evs)]
    /\ UNCHANGED shellVars
    /\ lastOp' = Op("FetchOk", i)
    /\ UNCHANGED <<messages, inputMessage, isLoading, topics,
                   streamingMessage, toast, requests, topicsPc>>

Loop(i) ==
    [msg |-> sends[i].msg, shown |-> streamingMessage, list |-> messages,
     applied |-> sends[i].applied]

\* one turn of while (true): reader.read() gives the next n tokens
ReadChunk(i, n) ==
    /\ sends[i].pc = "read"
    /\ n \in 1..(Len(sends[i].payload) - sends[i].pos)
    /\ \E st \in {StreamChunk(SubSeq(sends[i].payload, sends[i].pos + 1,
                                      sends[i].pos + n), Loop(i))} :
           /\ messages' = st.list
           /\ streamingMessage' = st.shown
           /\ sends' = [sends EXCEPT ![i].msg = st.msg,
                                     ![i].applied = st.applied,
                                     ![i].pos = @ + n]
    /\ UNCHANGED shellVars
    /\ lastOp' = Op("ReadChunk", i)
    /\ UNCHANGED <<inputMessage, isLoading, topics, toast, requests, topicsPc>>

\* reader.read() gives done: break, then finally
ReadDone(i) ==
    /\ sends[i].pc = "read"
    /\ sends[i].pos = Len(sends[i].payload)
    /\ isLoading' = FALSE
    /\ sends' = [sends EXCEPT ![i] = Exited(@)]
    /\ UNCHANGED shellVars
    /\ lastOp' = Op("ReadDone", i)
    /\ UNCHANGED <<messages, inputMessage, topics, streamingMessage, toast,
                   requests, topicsPc>>

\* reader.read() rejects
ReadFailed(i) ==
    /\ sends[i].pc = "read"
    /\ Thrown(i)

\* a fallback whose `return` skips the finally block
TextRead_NoFinally(i) ==
    /\ sends[i].pc = "text"
    /\ \E st \in {FallbackText(sends[i].payload, Loop(i))} :
           /\ messages' = st.list
           /\ streamingMessage' = st.shown
           /\ sends' = [sends EXCEPT ![i] = Exited([@ EXCEPT !.msg = st.msg,
                                                   !.applied = st.applied])]
    /\ UNCHANGED shellVars
    /\ lastOp' = Op("TextRead", i)
    /\ UNCHANGED <<inputMessage, isLoading, topics, toast, requests, topicsPc>>

\* fallback: response.text() resolves, the lines are replayed, return, finally
TextRead(i) ==
    /\ sends[i].pc = "text"
    /\ \E st \in {FallbackText(sends[i].payload, Loop(i))} :
           /\ messages' = st.list
           /\ streamingMessage' = st.shown
           /\ sends' = [sends EXCEPT ![i] = Exited([@ EXCEPT !.msg = st.msg,
                                                   !.applied = st.applied])]
    /\ isLoading' = FALSE
    /\ UNCHANGED shellVars
    /\ lastOp' = Op("TextRead", i)
    /\ UNCHANGED <<inputMessage, topics, toast, requests, topicsPc>>

\* fallback: response.text() rejects, `throw e` reaches the outer catch
TextFailed(i) ==
    /\ sends[i].pc = "text"
    /\ Thrown(i)

\* the tokens up to and including the next newline
LineCut(i) ==
    LET rest == SubSeq(sends[i].payload, sends[i].pos + 1, Len(sends[i].payload))
    IN  {n \in 1..Len(rest) : rest[n] = NL /\ \A m \in 1..(n - 1) : rest[m] # NL}

\* the response of the backend to the POST of send i
Responds(i, streams) ==
    /\ sends[i].pc = "fetch"
    /\ \E evs \in streams, r \in BOOLEAN : FetchOk(i, evs, r)

Next ==
    \/ \E list \in TopicLists : TopicsLoaded(list)
    \/ TopicsFailed
    \/ \E v \in Inputs : ChangeInput(v)
    \/ ClickSend
    \/ handleKeyPress
    \/ \E k \in 1..Len(topics) : handleTopicClick(k)
    \/ clearChat
    \/ \E i \in 1..Len(sends) : FetchRejected(i)
    \/ \E i \in 1..Len(sends) : FetchNotOk(i)
    \/ \E i \in 1..Len(sends) : Responds(i, ScreenStreams)
    \/ \E i \in 1..Len(sends) : \E n \in LineCut(i) : ReadChunk(i, n)
    \/ \E i \in 1..Len(sends) : ReadDone(i)
    \/ \E i \in 1..Len(sends) : ReadFailed(i)
    \/ \E i \in 1..Len(sends) : TextRead(i)
    \/ \E i \in 1..Len(sends) : TextFailed(i)

Spec == Init /\ [][Next]_vars

\* Decode runs: one send from the input box, every stream of at most
\* MaxEvents events, every way of cutting its text into chunks, both paths.
DecodeSend ==
    /\ sends = <<>>
    /\ sendMessage(<<"q">>, "ClickSend")

AnyChunk(i) ==
    \E n \in 1..(Len(sends[i].payload) - sends[i].pos) : ReadChunk(i, n)

NextDecode ==
    \/ DecodeSend
    \/ \E i \in 1..Len(sends) : Responds(i, DecodeStreams)
    \/ \E i \in 1..Len(sends) : AnyChunk(i)
    \/ \E i \in 1..Len(sends) : ReadDone(i)
    \/ \E i \in 1..Len(sends) : TextRead(i)

SpecDecode == Init /\ [][NextDecode]_vars

\* Metadata runs: as the decode runs, with the streams of MetaStreams.
NextMeta ==
    \/ DecodeSend
    \/ \E i \in 1..Len(sends) : Responds(i, MetaStreams)
    \/ \E i \in 1..Len(sends) : AnyChunk(i)
    \/ \E i \in 1..Len(sends) : ReadDone(i)
    \/ \E i \in 1..Len(sends) : TextRead(i)

SpecMeta == Init /\ [][NextMeta]_vars

\* Split runs: as the decode runs, with the streams of SplitStreams.
NextSplit ==
    \/ DecodeSend
    \/ \E i \in 1..Len(sends) : Responds(i, SplitStreams)
    \/ \E i \in 1..Len(sends) : AnyChunk(i)
    \/ \E i \in 1..Len(sends) : ReadDone(i)
    \/ \E i \in 1..Len(sends) : TextRead(i)

SpecSplit == Init /\ [][NextSplit]_vars

\* Clear runs: one send, every stream of at most MaxEvents events of
\* ClearEvents read line by line, and the Clear chat button.
NextClear ==
    \/ DecodeSend
    \/ \E i \in 1..Len(sends) : Responds(i, ClearStreams)
    \/ \E i \in 1..Len(sends) : \E n \in LineCut(i) : ReadChunk(i, n)
    \/ \E i \in 1..Len(sends) : ReadDone(i)
    \/ \E i \in 1..Len(sends) : TextRead(i)
    \/ clearChat

SpecClear == Init /\ [][NextClear]_vars

\* response.ok with a body of event lines and other lines, read through the
\* reader
FetchLines(i, items) ==
    /\ sends[i].pc = "fetch"
    /\ sends' = [sends EXCEPT ![i].pc = "read",
                              ![i].sent = items,
                              ![i].payload = EncodeItems(items)]
    /\ UNCHANGED shellVars
    /\ lastOp' = Op("FetchOk", i)
    /\ UNCHANGED <<messages, inputMessage, isLoading, topics,
                   streamingMessage, toast, requests, topicsPc>>

\* the tokens up to and including a newline, any number of whole lines
LinesCut(i) ==
    LET rest == SubSeq(sends[i].payload, sends[i].pos + 1, Len(sends[i].payload))
    IN  {n \in 1..Len(rest) : rest[n] = NL}

\* Line runs: one send, every body of at most MaxEvents lines of LineItems,
\* every way of delivering it in chunks of whole lines.
NextLines ==
    \/ DecodeSend
    \/ \E i \in 1..Len(sends) : \E items \in LineStreams : FetchLines(i, items)
    \/ \E i \in 1..Len(sends) : \E n \in LinesCut(i) : ReadChunk(i, n)
    \/ \E i \in 1..Len(sends) : ReadDone(i)

SpecLines == Init /\ [][NextLines]_vars

----------------------------------------------------------------------------
(* The static shell: App of src/src/App.js *)

MaxShellSends == 4   \* handleSend calls that pass the guard

\* values of `type` and `val` the Chat component hands to onSend
ShellTypes == {"text", "image"}
ShellInputs == {<<>>, <<" ">>, <<"h", "i">>, <<" ", "h">>}

\* appendMsg({type: "text", content: {text: val}, position: "right"})
UserBubble(val) ==
    [type |-> "text", content |-> [text |-> val], position |-> "right"]

\* appendMsg({type: "text", content: {text: "Hello! ..."}})
Reply ==
    [type |-> "text",
     content |-> [text |-> <<"Hello! I'm your health assistant. How can I help you today?">>]]

ShellOp(name, type, val) == [op |-> name, type |-> type, val |-> val]

screenVars ==
    <<messages, inputMessage, isLoading, topics, streamingMessage, toast,
      requests, topicsPc, sends>>

\* the user bubbles of the transcript
UserCount ==
    Cardinality({k \in 1..Len(shellMessages) :
                    "position" \in DOMAIN shellMessages[k]})

\* a handleSend that tests val without trimming it
handleSend_NoTrim(type, val) ==
    /\ \/ /\ type = "text" /\ val # <<>>
          /\ UserCount < MaxShellSends
          /\ shellMessages' = Append(shellMessages, UserBubble(val))
          /\ timers' = Append(timers, Len(shellMessages) + 1)
       \/ /\ ~(type = "text" /\ val # <<>>)
          /\ UNCHANGED shellVars
    /\ lastOp' = ShellOp("handleSend", type, val)
    /\ UNCHANGED screenVars

\* handleSend(type, val); a timer is kept as the place of the user bubble
\* its handleSend call appended
handleSend(type, val) ==
    /\ \/ /\ type = "text" /\ Trim(val) # <<>>
          /\ UserCount < MaxShellSends
          /\ shellMessages' = Append(shellMessages, UserBubble(val))
          /\ timers' = Append(timers, Len(shellMessages) + 1)
       \/ /\ ~(type = "text" /\ Trim(val) # <<>>)
          /\ UNCHANGED shellVars
    /\ lastOp' = ShellOp("handleSend", type, val)
    /\ UNCHANGED screenVars

\* the callback of the oldest setTimeout runs; all have the same delay
TimerFires ==
    /\ timers # <<>>
    /\ shellMessages' = Append(shellMessages, Reply)
    /\ timers' = Tail(timers)
    /\ lastOp' = ShellOp("TimerFires", "", <<>>)
    /\ UNCHANGED screenVars

NextShell ==
    \/ \E type \in ShellTypes, val \in ShellInputs : handleSend(type, val)
    \/ TimerFires

\* the event loop runs every callback whose delay has passed
SpecShell == Init /\ [][NextShell]_vars /\ WF_vars(TimerFires)

----------------------------------------------------------------------------
(* Properties *)

HasType(evs, type) == \E k \in 1..Len(evs) : evs[k].type = Str(type)

\* the contents of the events of one type, concatenated in order
RECURSIVE Concat(_, _)
Concat(evs, type) ==
    IF evs = <<>> THEN <<>>
    ELSE (IF Head(evs).type = Str(type) THEN Head(evs).content ELSE <<>>)
         \o Concat(Tail(evs), type)

\* thinking and response events followed by one done event
TextStream(evs) ==
    /\ Len(evs) >= 1
    /\ evs[Len(evs)] = Done
    /\ \A k \in 1..(Len(evs) - 1) :
          evs[k].type \in {Str("thinking"), Str("response")}

\* the step hands the last event of such a stream to the handlers of send
\* i, every line of the stream having reached them whole
TextDelivered(i) ==
    /\ TextStream(sends[i].sent)
    /\ sends[i].applied # sends[i].sent
    /\ sends'[i].applied = sends[i].sent

LastMessage == messages[Len(messages)]

\* C1 as stated: after thinking and response events and a done event, each
\* delivered as a complete line, the assistant Message has the concatenated
\* response contents as content and the concatenated thinking contents as
\* thinking, null only when no thinking event arrived.
C1_Original ==
    [][\A i \in 1..Len(sends) :
          TextDelivered(i) =>
              /\ LastMessage'.role = "assistant"
              /\ LastMessage'.content = Concat(sends[i].sent, "response")
              /\ LastMessage'.thinking =
                    IF HasType(sends[i].sent, "thinking")
                    THEN Concat(sends[i].sent, "thinking") ELSE Null]_vars

\* C1 amended: as C1, but thinking is null whenever the concatenation of
\* the thinking contents is the empty string, also when thinking events
\* with empty content arrived.
C1_Concatenation ==
    [][\A i \in 1..Len(sends) :
          TextDelivered(i) =>
              /\ LastMessage'.role = "assistant"
              /\ LastMessage'.content = Concat(sends[i].sent, "response")
              /\ LastMessage'.thinking =
                    IF Concat(sends[i].sent, "thinking") = <<>>
                    THEN Null ELSE Concat(sends[i].sent, "thinking")]_vars

C1_Witness ==
    \E i \in 1..Len(sends) :
        /\ sends[i].applied = <<Response(<<"b">>), Response(<<"c">>), Done>>
        /\ sends[i].pc = "exited"
        /\ lastOp.op = "ReadDone"
        /\ LastMessage.content = <<"b", "c">>

UserMessage(text) == [role |-> "user", content |-> text]

\* C5 as stated: a send that read its response through the streaming loop
\* leaves the transcript the fallback replay of the same payload leaves,
\* however the payload was cut into chunks.
C5_SameTranscript ==
    [][\A i \in 1..Len(sends) :
          (sends[i].pc = "read" /\ sends'[i].pc = "exited"
              /\ lastOp'.op = "ReadDone") =>
              messages' =
                FallbackText(sends[i].payload,
                             [msg |-> EmptyDraft, shown |-> EmptyDraft,
                              list |-> <<UserMessage(requests[i])>>,
                              applied |-> <<>>]).list]_vars

\* the last metadata event of evs, Done when there is none
RECURSIVE LastMetadata(_)
LastMetadata(evs) ==
    IF evs = <<>> THEN Done
    ELSE IF evs[Len(evs)].type = Str("metadata") THEN evs[Len(evs)]
    ELSE LastMetadata(SubSeq(evs, 1, Len(evs) - 1))

\* sources, webSources and webSearched after the events evs
MetaAfter(evs) ==
    IF HasType(evs, "metadata")
    THEN <<LastMetadata(evs).sources, LastMetadata(evs).web_sources,
           LastMetadata(evs).web_searched>>
    ELSE <<Null, Null, False>>

MetaOf(m) == <<m.sources, m.webSources, m.webSearched>>

DoneCount(evs) == Cardinality({k \in 1..Len(evs) : evs[k] = Done})

\* C10: the draft carries the sources, web_sources and web_searched of the
\* last metadata event applied (its initial values before the first), its
\* content and thinking are the concatenated response and thinking contents
\* whatever metadata events came between, and the Message a done event
\* appends carries the fields of the last metadata event before that done.
C10_MetadataOverwrites ==
    \A i \in 1..Len(sends) :
        LET a == sends[i].applied
            m == sends[i].msg
        IN  /\ MetaOf(m) = MetaAfter(a)
            /\ m.content = Concat(a, "response")
            /\ m.thinking = Concat(a, "thinking")
            /\ \A k \in 1..Len(a) :
                  a[k] = Done =>
                      MetaOf(messages[1 + DoneCount(SubSeq(a, 1, k))])
                          = MetaAfter(SubSeq(a, 1, k))

C10_Witness ==
    \E i \in 1..Len(sends) :
        /\ sends[i].applied =
              <<Metadata(<<"WHO">>, <<"w1">>, True),
                Metadata(<<"CDC">>, Undefined, Undefined), Done>>
        /\ sends[i].pc = "read"
        /\ MetaOf(LastMessage) = <<<<"CDC">>, Undefined, Undefined>>

\* the step is the catch branch of send i
ThrownStep(i) == sends[i].pc # "exited" /\ lastOp'.op = "catch" /\ lastOp'.id = i

ExitOps == {"ReadDone", "TextRead", "catch"}

\* C3 as stated: a send that has exited has either turned its draft into a
\* Message through a done event or dropped it in the catch branch, and the
\* draft is null when it exits.
C3_DraftSettled ==
    \A i \in 1..Len(sends) :
        (lastOp.op \in ExitOps /\ lastOp.id = i) =>
            /\ lastOp.op = "catch" \/ HasType(sends[i].applied, "done")
            /\ streamingMessage = NullMsg

InFlight == {i \in 1..Len(sends) : sends[i].pc # "exited"}

\* C4 as stated: at most one send is in flight at any time.
C4_OneInFlight == Cardinality(InFlight) <= 1

\* C6: a clearChat step leaves the transcript empty and the draft null and
\* issues no request.
C6_ClearResets ==
    [][lastOp'.op = "clearChat" =>
          /\ messages' = <<>>
          /\ streamingMessage' = NullMsg
          /\ requests' = requests]_vars

C6_Witness ==
    /\ lastOp.op = "clearChat"
    /\ \E i \in 1..Len(sends) :
          sends[i].pc = "read" /\ sends[i].msg.content # <<>>
    /\ messages = <<>>
    /\ streamingMessage = NullMsg

SendOps == {"ClickSend", "handleKeyPress", "handleTopicClick"}

IsBlank(text) == \A k \in 1..Len(text) : text[k] \in Whitespace

\* C7: a sendMessage call whose messageText is empty or only whitespace
\* changes neither the transcript, the draft, the input text nor the
\* loading flag, and issues no request.
C7_BlankSendIsNoOp ==
    [][(lastOp'.op \in SendOps /\ IsBlank(lastOp'.text)) =>
          UNCHANGED <<messages, streamingMessage, inputMessage, isLoading,
                      requests, sends>>]_vars

C7_Witness ==
    /\ lastOp.op = "handleKeyPress"
    /\ lastOp.text = <<" ">>
    /\ inputMessage = <<" ">>
    /\ requests = <<>>

\* C8: the step by which a send exits, whatever the exit, leaves the loading
\* flag false.
C8_LoadingCleared ==
    [][\A i \in 1..Len(sends) :
          (sends[i].pc # "exited" /\ sends'[i].pc = "exited") =>
              ~isLoading']_vars

C8_Witness ==
    /\ lastOp.op = "TextRead"
    /\ sends[lastOp.id].pc = "exited"
    /\ ~HasType(sends[lastOp.id].applied, "done")
    /\ ~isLoading

IsPrefix(a, b) == Len(a) <= Len(b) /\ SubSeq(b, 1, Len(a)) = a

AssistantCount ==
    Cardinality({k \in 1..Len(messages) : messages[k].role = "assistant"})

\* C11 as stated: once a send has processed a done event, the draft stays
\* null and the transcript holds at most one assistant Message of that send,
\* whatever events follow the done in the same stream.
C11_DoneIsTerminal ==
    \A i \in 1..Len(sends) :
        HasType(sends[i].applied, "done") =>
            /\ streamingMessage = NullMsg
            /\ AssistantCount <= 1

\* C16 as stated: a topic click that appends a user Message appends the
\* canned question of a topic of the grid, never the text of the input box.
C16_TopicSendsCanned ==
    [][(lastOp'.op = "handleTopicClick" /\ Len(messages') = Len(messages) + 1) =>
          /\ \E k \in 1..Len(topics) :
                /\ topics[k] \in DOMAIN topicQuestions
                /\ LastMessage' = UserMessage(topicQuestions[topics[k]])
          /\ LastMessage'.content # inputMessage]_vars

\* C18 as stated: the loading flag is true whenever some send has started
\* and not yet exited.
C18_LoadingWhileInFlight == InFlight # {} => isLoading

\* C15: a sendMessage call whose messageText passes the guard appends, in
\* the same step, one user Message with that text as content to the end of
\* the transcript, empties the input text, sets the loading flag and sets
\* the draft to the empty draft.
C15_SendStarts ==
    [][(lastOp'.op \in SendOps /\ ~IsBlank(lastOp'.text)) =>
          /\ messages' = Append(messages, [role |-> "user", content |-> lastOp'.text])
          /\ inputMessage' = <<>>
          /\ isLoading' = TRUE
          /\ streamingMessage' =
                [role |-> "assistant", thinking |-> <<>>, content |-> <<>>,
                 thinkingComplete |-> FALSE, sources |-> Null,
                 webSources |-> Null, webSearched |-> False]]_vars

C15_Witness ==
    /\ lastOp.op = "handleKeyPress"
    /\ lastOp.text = <<" ", "q">>
    /\ Len(messages) >= 2
    /\ LastMessage = UserMessage(<<" ", "q">>)
    /\ inputMessage = <<>>
    /\ isLoading
    /\ streamingMessage.content = <<>>

\* the lines of the first n tokens of a body
LinesIn(payload, n) == Cardinality({k \in 1..n : payload[k] = NL})

\* the events among the lines a chunk of whole lines carries to send i
ChunkEvents(i) ==
    SelectSeq(SubSeq(sends[i].sent,
                     LinesIn(sends[i].payload, sends[i].pos) + 1,
                     LinesIn(sends[i].payload, sends'[i].pos)),
              IsEvent)

\* C12: a chunk of whole lines hands to the handlers exactly its event lines,
\* in order, whatever other lines stand before or between them; the lines
\* that are not `data: ` lines or do not parse add nothing to the draft and,
\* when the chunk holds no event line, leave draft and transcript as they
\* were; the send stays in its read loop and no notification is raised.
C12_BadLinesSkipped ==
    [][\A i \in 1..Len(sends) :
          (sends[i].pc = "read" /\ sends'[i].pos > sends[i].pos) =>
              /\ sends'[i].applied = sends[i].applied \o ChunkEvents(i)
              /\ sends'[i].msg.content =
                    sends[i].msg.content \o Concat(ChunkEvents(i), "response")
              /\ ChunkEvents(i) = <<>> =>
                    /\ sends'[i].msg = sends[i].msg
                    /\ UNCHANGED <<messages, streamingMessage>>
              /\ sends'[i].pc = "read"
              /\ toast' = toast]_vars

C12_Witness ==
    \E i \in 1..Len(sends) :
        /\ sends[i].pc = "read"
        /\ sends[i].sent = <<CutShort, Response(<<"b">>), Done>>
        /\ sends[i].applied = <<Response(<<"b">>), Done>>
        /\ LastMessage.role = "assistant"
        /\ LastMessage.content = <<"b">>
        /\ toast = "none"

\* the tokens of the body before line k of evs, and up to its closing brace
LineStart(evs, k) == Len(Encode(SubSeq(evs, 1, k - 1)))
LineEnd(evs, k) == Len(Encode(SubSeq(evs, 1, k))) - 1

\* the events of evs, from the k-th on, whose line `data: <json>` lies
\* within the tokens a+1..b of the body
RECURSIVE WholeLines(_, _, _, _)
WholeLines(evs, k, a, b) ==
    IF k > Len(evs) THEN <<>>
    ELSE (IF a <= LineStart(evs, k) /\ LineEnd(evs, k) <= b
          THEN <<evs[k]>> ELSE <<>>)
         \o WholeLines(evs, k + 1, a, b)

\* C13: a chunk hands to the handlers exactly the events whose line
\* `data: <json>` it holds from the first token to the last, in order; a line
\* cut by the start or the end of the chunk gives no event in either chunk,
\* and a chunk that holds no whole line leaves draft and transcript as they
\* were.
C13_SplitLineDropped ==
    [][\A i \in 1..Len(sends) :
          (sends[i].pc = "read" /\ sends'[i].pos > sends[i].pos) =>
              \E whole \in {WholeLines(sends[i].sent, 1, sends[i].pos, sends'[i].pos)} :
                  /\ sends'[i].applied = sends[i].applied \o whole
                  /\ whole = <<>> =>
                        /\ sends'[i].msg = sends[i].msg
                        /\ UNCHANGED <<messages, streamingMessage>>]_vars

C13_Witness ==
    \E i \in 1..Len(sends) :
        /\ sends[i].pc = "read"
        /\ sends[i].sent = <<Thinking(<<"a">>), Response(<<"b">>), Done>>
        /\ sends[i].pos = Len(sends[i].payload)
        /\ sends[i].applied = <<Thinking(<<"a">>), Done>>
        /\ LastMessage.role = "assistant"
        /\ LastMessage.content = <<>>

DraftTypes ==
    {Str("thinking"), Str("thinking_end"), Str("response"), Str("metadata")}

\* C14: a clearChat step leaves every send as it was, in flight if it was in
\* flight; every later thinking, thinking_end, response or metadata event
\* of the stream puts the draft of the send on screen, holding the response
\* and thinking contents of all events applied so far, those before the
\* clear included; every later done event appends the assistant Message
\* with that content to the transcript as the clear left it.
C14_ClearDoesNotCancel ==
    [][/\ lastOp'.op = "clearChat" => sends' = sends
       /\ \A i \in 1..Len(sends) :
             (sends[i].pc = "read"
                 /\ Len(sends'[i].applied) = Len(sends[i].applied) + 1) =>
                 LET a == sends'[i].applied
                     e == a[Len(a)]
                 IN  /\ e.type \in DraftTypes =>
                           /\ streamingMessage' # NullMsg
                           /\ streamingMessage' = sends'[i].msg
                           /\ streamingMessage'.content = Concat(a, "response")
                           /\ streamingMessage'.thinking = Concat(a, "thinking")
                           /\ messages' = messages
                     /\ e = Done =>
                           /\ Len(messages') = Len(messages) + 1
                           /\ IsPrefix(messages, messages')
                           /\ LastMessage'.role = "assistant"
                           /\ LastMessage'.content = Concat(a, "response")]_vars

C14_Witness ==
    \E i \in 1..Len(sends) :
        /\ sends[i].pc = "read"
        /\ sends[i].applied = <<Thinking(<<"a">>), Response(<<"b">>)>>
        /\ lastOp.op = "ReadChunk"
        /\ messages = <<>>
        /\ streamingMessage # NullMsg
        /\ streamingMessage.thinking = <<"a">>
        /\ streamingMessage.content = <<"b">>

IsUserBubble(m) == "position" \in DOMAIN m /\ m.position = "right"

UsersIn(p) == Cardinality({k \in 1..p : IsUserBubble(shellMessages[k])})
RepliesIn(p) == p - UsersIn(p)

\* C17: a handleSend step of type "text" with a value that is not blank
\* appends the right-aligned bubble with that value and arms one timer, any
\* other handleSend step appends nothing and arms nothing; a timer step
\* appends the hard-coded reply after the bubble of the call that armed it;
\* at every place of the transcript the replies so far are no more than the
\* user bubbles so far, replies and armed timers together are as many as the
\* user bubbles, so the two counts agree when no timer is armed; and every
\* user bubble gets its reply in the end.
C17_ShellReplies ==
    /\ [][/\ lastOp'.op = "handleSend" =>
                IF lastOp'.type = "text" /\ ~IsBlank(lastOp'.val)
                THEN /\ shellMessages' =
                           Append(shellMessages,
                                  [type |-> "text",
                                   content |-> [text |-> lastOp'.val],
                                   position |-> "right"])
                     /\ Len(timers') = Len(timers) + 1
                ELSE UNCHANGED <<shellMessages, timers>>
          /\ lastOp'.op = "TimerFires" =>
                /\ Len(shellMessages') = Len(shellMessages) + 1
                /\ IsPrefix(shellMessages, shellMessages')
                /\ ~IsUserBubble(shellMessages'[Len(shellMessages')])
                /\ shellMessages'[Len(shellMessages')].content.text =
                      <<"Hello! I'm your health assistant. How can I help you today?">>
                /\ Len(timers') = Len(timers) - 1
                /\ IsUserBubble(shellMessages[Head(timers)])]_vars
    /\ [](/\ \A p \in 1..Len(shellMessages) : RepliesIn(p) <= UsersIn(p)
          /\ RepliesIn(Len(shellMessages)) + Len(timers) = UsersIn(Len(shellMessages))
          /\ timers = <<>> =>
                RepliesIn(Len(shellMessages)) = UsersIn(Len(shellMessages)))
    /\ \A n \in 1..MaxShellSends :
          (UsersIn(Len(shellMessages)) >= n) ~> (RepliesIn(Len(shellMessages)) >= n)

C17_Witness ==
    /\ Len(shellMessages) = 4
    /\ IsUserBubble(shellMessages[1])
    /\ IsUserBubble(shellMessages[2])
    /\ shellMessages[3] = shellMessages[4]
    /\ ~IsUserBubble(shellMessages[4])
    /\ timers = <<>>
    /\ lastOp.op = "handleSend"
    /\ lastOp.type = "text"
    /\ lastOp.val = <<" ">>

====
